---------------------------- MODULE Spec2Model ----------------------------
(***************************************************************************)
(* A model of cei-crawler's statement crawler (src/lib/StatementCrawler.js) *)
(* and of the helpers it uses (src/lib/CeiUtils.js).                        *)
(*                                                                         *)
(* Texts (responses, field values) are sequences of symbols.  A symbol is  *)
(* either one character that the code treats specially (a pipe, a quote,   *)
(* a semicolon, a blank, a digit, ...) or an opaque word: a run of         *)
(* characters that the code only ever copies or compares as a whole, such  *)
(* as "hiddenField" or "__VIEWSTATE".                                      *)
(***************************************************************************)
EXTENDS Integers, Sequences, FiniteSets, TLC

(***************************************************************************)
(* Bounds of the model.                                                    *)
(***************************************************************************)
MaxInst == 2
MaxAcc == 2
MaxCalls == 5
MaxAttempts == 3
MaxFormLen == 2
MaxEntries == 3
MaxRows == 5
MaxTableRows == 2

(***************************************************************************)
(* JavaScript values that are not texts.                                   *)
(***************************************************************************)
Undefined == [kind |-> "undefined"]
Num(n) == [kind |-> "num", n |-> n]
Str(s) == [kind |-> "str", s |-> s]

(***************************************************************************)
(* String primitives of JavaScript, on sequences of symbols.               *)
(***************************************************************************)
IsSpace(c) == c \in {" ", "\n", "\t"}

IsDigit(c) == c \in {"0", "1", "2", "3", "4", "5", "6", "7", "8", "9"}

DigitVal(c) ==
  CASE c = "0" -> 0 [] c = "1" -> 1 [] c = "2" -> 2 [] c = "3" -> 3
    [] c = "4" -> 4 [] c = "5" -> 5 [] c = "6" -> 6 [] c = "7" -> 7
    [] c = "8" -> 8 [] OTHER -> 9

\* String.prototype.split with a one-symbol separator.
RECURSIVE SplitOn(_, _)
SplitOn(s, c) ==
  IF \A k \in 1..Len(s) : s[k] # c
    THEN <<s>>
    ELSE LET k == CHOOSE k \in 1..Len(s) :
                    s[k] = c /\ \A m \in 1..(k - 1) : s[m] # c
         IN  <<SubSeq(s, 1, k - 1)>> \o SplitOn(SubSeq(s, k + 1, Len(s)), c)

\* Array.prototype.slice(-1)[0]
LastOf(parts) == parts[Len(parts)]

RECURSIVE TrimLeft(_)
TrimLeft(s) ==
  IF s # <<>> /\ IsSpace(s[1]) THEN TrimLeft(Tail(s)) ELSE s

RECURSIVE TrimRight(_)
TrimRight(s) ==
  IF s # <<>> /\ IsSpace(s[Len(s)])
    THEN TrimRight(SubSeq(s, 1, Len(s) - 1))
    ELSE s

\* String.prototype.trim
Trim(s) == TrimRight(TrimLeft(s))

\* String.prototype.replace(/c/g, r) for a one-symbol pattern c.
RECURSIVE ReplaceAll(_, _, _)
ReplaceAll(s, c, r) ==
  IF s = <<>> THEN <<>>
  ELSE (IF s[1] = c THEN r ELSE <<s[1]>>) \o ReplaceAll(Tail(s), c, r)

\* String.prototype.replace(/\|\|/g, "|")
RECURSIVE CollapsePipes(_)
CollapsePipes(s) ==
  IF Len(s) < 2 THEN s
  ELSE IF s[1] = "|" /\ s[2] = "|"
         THEN <<"|">> \o CollapsePipes(SubSeq(s, 3, Len(s)))
         ELSE <<s[1]>> \o CollapsePipes(Tail(s))

\* normalize-html-whitespace: every run of two or more whitespace
\* characters becomes one blank.
RECURSIVE normalizeWhitespace(_)
normalizeWhitespace(s) ==
  IF s = <<>> THEN <<>>
  ELSE IF Len(s) >= 2 /\ IsSpace(s[1]) /\ IsSpace(s[2])
         THEN LET rest == TrimLeft(s) IN <<" ">> \o normalizeWhitespace(rest)
         ELSE <<s[1]>> \o normalizeWhitespace(Tail(s))

(***************************************************************************)
(* JSON.parse, for the texts extractMessagePostResponse hands it: an array *)
(* of numbers and double-quoted strings.  A result is [ok, args].          *)
(***************************************************************************)
JsonFail == [ok |-> FALSE, val |-> Undefined, rest |-> <<>>]

\* The digits a number starts with.
RECURSIVE DigitRun(_)
DigitRun(s) ==
  IF s # <<>> /\ IsDigit(s[1]) THEN <<s[1]>> \o DigitRun(Tail(s)) ELSE <<>>

RECURSIVE DecimalValue(_, _)
DecimalValue(ds, acc) ==
  IF ds = <<>> THEN acc ELSE DecimalValue(Tail(ds), 10 * acc + DigitVal(ds[1]))

\* A string's characters, s starting right after the opening quote.  After
\* a backslash only the quote, the backslash and the slash are escapes
\* here: a word symbol after a backslash is an invalid escape.
RECURSIVE JsonString(_, _)
JsonString(s, acc) ==
  IF s = <<>> THEN JsonFail
  ELSE IF s[1] = "\"" THEN [ok |-> TRUE, val |-> Str(acc), rest |-> Tail(s)]
  ELSE IF s[1] = "\\"
    THEN IF Len(s) >= 2 /\ s[2] \in {"\"", "\\", "/"}
           THEN JsonString(SubSeq(s, 3, Len(s)), Append(acc, s[2]))
           ELSE JsonFail
  ELSE IF s[1] \in {"\n", "\t"} THEN JsonFail
  ELSE JsonString(Tail(s), Append(acc, s[1]))

JsonValue(s) ==
  IF s = <<>> THEN JsonFail
  ELSE IF IsDigit(s[1])
    THEN LET ds == DigitRun(s)
         IN  IF Len(ds) > 1 /\ ds[1] = "0"
               THEN JsonFail
               ELSE [ok |-> TRUE, val |-> Num(DecimalValue(ds, 0)),
                     rest |-> SubSeq(s, Len(ds) + 1, Len(s))]
  ELSE IF s[1] = "\"" THEN JsonString(Tail(s), <<>>)
  ELSE JsonFail

\* The elements of an array, s starting at an element.
RECURSIVE JsonElements(_, _)
JsonElements(s, acc) ==
  LET v == JsonValue(TrimLeft(s))
      after == TrimLeft(v.rest)
  IN  IF ~v.ok \/ after = <<>> THEN [ok |-> FALSE, args |-> <<>>]
      ELSE IF after[1] = "]"
        THEN [ok |-> TrimLeft(Tail(after)) = <<>>, args |-> Append(acc, v.val)]
      ELSE IF after[1] = ","
        THEN JsonElements(Tail(after), Append(acc, v.val))
      ELSE [ok |-> FALSE, args |-> <<>>]

JsonParseArray(s) ==
  LET t == TrimLeft(s)
  IN  IF t = <<>> \/ t[1] # "[" THEN [ok |-> FALSE, args |-> <<>>]
      ELSE LET body == TrimLeft(Tail(t))
           IN  IF body # <<>> /\ body[1] = "]"
                 THEN [ok |-> TrimLeft(Tail(body)) = <<>>, args |-> <<>>]
                 ELSE JsonElements(body, <<>>)

\* array[i] of JavaScript (0-based i), undefined past the end.
At(arr, i) == IF i + 1 \in 1..Len(arr) THEN arr[i + 1] ELSE Undefined

(***************************************************************************)
(* CeiUtils.extractMessagePostResponse                                     *)
(***************************************************************************)
MessageCall == "CEIWeb.IncluirMensagem"

NoMessage == [type |-> Undefined, message |-> Undefined]

extractMessagePostResponse(responseTxt) ==
  LET calls == SplitOn(LastOf(SplitOn(responseTxt, "\n")), MessageCall)
  IN  IF Len(calls) < 2 THEN NoMessage
      ELSE LET parameters == Trim(SplitOn(calls[2], ";")[1])
               inner == SubSeq(parameters, 2, Len(parameters) - 1)
               arrayStr == ReplaceAll(
                             ReplaceAll(<<"[">> \o inner \o <<"]">>,
                                        "\"", <<"\\", "\"">>),
                             "'", <<"\"">>)
               parsed == JsonParseArray(arrayStr)
           IN  IF ~parsed.ok THEN NoMessage
               ELSE [type |-> At(parsed.args, 0), message |-> At(parsed.args, 1)]

(***************************************************************************)
(* CeiUtils.extractUpdateForm                                              *)
(***************************************************************************)
Includes(token, word) == \E k \in 1..Len(token) : token[k] = word

\* A variant that takes the scripts whatever extractScript is.
IsMarkerMutant(token, extractScript) ==
  \/ Includes(token, "hiddenField")
  \/ Includes(token, "ScriptContentNoTags")

IsMarker(token, extractScript) ==
  \/ Includes(token, "hiddenField")
  \/ extractScript /\ Includes(token, "ScriptContentNoTags")

RECURSIVE UpdateEntries(_, _, _)
UpdateEntries(array, idx, extractScript) ==
  IF idx >= Len(array) THEN <<>>
  ELSE (IF IsMarker(array[idx + 1], extractScript)
          THEN <<[id |-> IF idx + 2 <= Len(array) THEN Str(array[idx + 2])
                         ELSE Undefined,
                  value |-> IF idx + 3 <= Len(array) THEN Str(array[idx + 3])
                            ELSE Undefined]>>
          ELSE <<>>)
       \o UpdateEntries(array, idx + 1, extractScript)

extractUpdateForm(responseTxt, extractScript) ==
  UpdateEntries(
    SplitOn(CollapsePipes(Trim(LastOf(SplitOn(responseTxt, "\n")))), "|"),
    0, extractScript)

(***************************************************************************)
(* Dates.  A Date is [valid, y, m, d] with m in 1..12; an Invalid Date     *)
(* (a NaN time value) is InvalidDate.  Times of day are not modelled.      *)
(***************************************************************************)
InvalidDate == [valid |-> FALSE, y |-> 0, m |-> 0, d |-> 0]

NaN == [kind |-> "nan"]

IsLeap(y) == (y % 4 = 0 /\ y % 100 # 0) \/ y % 400 = 0

DaysInMonth(y, m) ==
  IF m = 2 THEN (IF IsLeap(y) THEN 29 ELSE 28)
  ELSE IF m \in {4, 6, 9, 11} THEN 30 ELSE 31

\* The day of month d (possibly 0 or past the month's end) of month m of
\* year y, carried into the neighbouring months as the Date constructor does.
RECURSIVE CarryDay(_, _, _)
CarryDay(y, m, d) ==
  IF d < 1
    THEN LET pm == IF m = 1 THEN 12 ELSE m - 1
             py == IF m = 1 THEN y - 1 ELSE y
         IN  CarryDay(py, pm, d + DaysInMonth(py, pm))
  ELSE IF d > DaysInMonth(y, m)
    THEN CarryDay(IF m = 12 THEN y + 1 ELSE y,
                  IF m = 12 THEN 1 ELSE m + 1,
                  d - DaysInMonth(y, m))
  ELSE [valid |-> TRUE, y |-> y, m |-> m, d |-> d]

\* new Date(year, monthIndex, day), the arguments numbers or NaN.
NewDate(year, monthIndex, day) ==
  IF year.kind # "num" \/ monthIndex.kind # "num" \/ day.kind # "num"
    THEN InvalidDate
    ELSE LET y0 == IF year.n \in 0..99 THEN 1900 + year.n ELSE year.n
             y1 == y0 + (monthIndex.n \div 12)
             m1 == (monthIndex.n % 12) + 1
         IN  CarryDay(y1, m1, day.n)

\* a < b on Dates: false as soon as one of them is invalid.
DateLess(a, b) ==
  /\ a.valid /\ b.valid
  /\ \/ a.y < b.y
     \/ a.y = b.y /\ a.m < b.m
     \/ a.y = b.y /\ a.m = b.m /\ a.d < b.d

\* parseInt: leading blanks, an optional sign, then digits.
parseInt(text) ==
  LET t == TrimLeft(text)
      neg == t # <<>> /\ t[1] = "-"
      ds == DigitRun(IF neg THEN Tail(t) ELSE t)
  IN  IF ds = <<>> THEN NaN
      ELSE Num(IF neg THEN 0 - DecimalValue(ds, 0) ELSE DecimalValue(ds, 0))

\* The decimal digits of a natural number.
RECURSIVE Digits(_)
Digits(n) ==
  LET d == <<"0", "1", "2", "3", "4", "5", "6", "7", "8", "9">>[(n % 10) + 1]
  IN  IF n < 10 THEN <<d>> ELSE Append(Digits(n \div 10), d)

\* Number.toString().padStart(2, "0")
Pad2(n) == IF n < 10 THEN <<"0">> \o Digits(n) ELSE Digits(n)

TimeSuffix == " 00:00:00"

\* CeiUtils.getDateForInput
getDateForInput(date) ==
  IF ~date.valid
    THEN <<"NaN", "/", "NaN", "/", "NaN", TimeSuffix>>
    ELSE Pad2(date.d) \o <<"/">> \o Pad2(date.m) \o <<"/">> \o Digits(date.y)
           \o <<TimeSuffix>>

\* CeiUtils.getDateFromInput
getDateFromInput(dateStr) ==
  LET parts == SplitOn(dateStr, "/")
      part(i) == IF i <= Len(parts) THEN parseInt(parts[i]) ELSE NaN
      day == part(1)
      month == part(2)
      year == part(3)
  IN  NewDate(year, IF month.kind = "num" THEN Num(month.n - 1) ELSE NaN, day)

\* String(x || '').replace(' 00:00:00', ''), x an option value or undefined
RECURSIVE RemoveFirst(_, _)
RemoveFirst(s, c) ==
  IF s = <<>> THEN <<>>
  ELSE IF s[1] = c THEN Tail(s) ELSE <<s[1]>> \o RemoveFirst(Tail(s), c)

\* The value getStatement sets on the month select: months are the values
\* of the month options of the institution's response.
MonthValue(date, capDates, months) ==
  LET afterShift == IF months = <<>> THEN <<>> ELSE Tail(months)
      minDateStr == IF months = <<>> THEN <<>>
                    ELSE RemoveFirst(months[1], TimeSuffix)
      minDate == getDateFromInput(minDateStr)
      maxDateStr == IF afterShift = <<>> THEN <<>>
                    ELSE RemoveFirst(afterShift[Len(afterShift)], TimeSuffix)
      maxDate == getDateFromInput(maxDateStr)
      d1 == IF capDates /\ DateLess(date, minDate) THEN minDate ELSE date
      d2 == IF capDates /\ DateLess(maxDate, date) THEN maxDate ELSE d1
      last == IF d2.valid THEN NewDate(Num(d2.y), Num(d2.m), Num(0))
              ELSE InvalidDate
  IN  getDateForInput(last)

(***************************************************************************)
(* The page: its controls and the whitelists of the two postback kinds.    *)
(***************************************************************************)
ScptManager == "ctl00$ContentPlaceHolder1$scptManager"
EventTarget == "__EVENTTARGET"
EventArgument == "__EVENTARGUMENT"
LastFocus == "__LASTFOCUS"
ViewState == "__VIEWSTATE"
ViewStateGenerator == "__VIEWSTATEGENERATOR"
EventValidation == "__EVENTVALIDATION"
AsyncPost == "__ASYNCPOST"
DdlAgentes == "ctl00$ContentPlaceHolder1$ddlAgentes"
DdlContas == "ctl00$ContentPlaceHolder1$ddlContas"
DdlFiltroMes == "ctl00$ContentPlaceHolder1$ddlFiltroMes"
BtnConsultar == "ctl00$ContentPlaceHolder1$btnConsultar"
BtnVersaoEXCEL == "ctl00$ContentPlaceHolder1$btnVersaoEXCEL"
PnlPanel == "ctl00$ContentPlaceHolder1$pnlPanel"

\* PAGE.SELECT_INSTITUTION, PAGE.SELECT_ACCOUNT, PAGE.SELECT_MONTH: the
\* ids of the three selects.
SELECT_INSTITUTION == "ctl00_ContentPlaceHolder1_ddlAgentes"
SELECT_ACCOUNT == "ctl00_ContentPlaceHolder1_ddlContas"
SELECT_MONTH == "ctl00_ContentPlaceHolder1_ddlFiltroMes"

FETCH_FORMS_STATEMENT_INSTITUTION ==
  <<ScptManager, EventTarget, EventArgument, LastFocus, ViewState,
    ViewStateGenerator, EventValidation, AsyncPost, DdlAgentes>>

FETCH_FORMS_STATEMENT_ACCOUNT ==
  <<ScptManager, DdlAgentes, DdlContas, DdlFiltroMes, EventTarget,
    EventArgument, LastFocus, ViewState, ViewStateGenerator,
    EventValidation, AsyncPost>>

\* The overrides of the institution postback and of the report postback.
InstitutionOverrides ==
  (ScptManager :> Str(<<PnlPanel, "|", DdlAgentes>>))
    @@ (EventTarget :> Str(<<DdlAgentes>>))

ReportOverrides == (ScptManager :> Str(<<PnlPanel, "|", BtnVersaoEXCEL>>))

(***************************************************************************)
(* A DOM is the sequence, in document order, of its input and select       *)
(* elements: [id, name, value], value the text of the value attribute      *)
(* (empty when the element has none).                                      *)
(***************************************************************************)
Element(id, name, value) == [id |-> id, name |-> name, value |-> value]

\* dom('#id').attr('value', value)
SetAttr(dom, id, value) ==
  [k \in DOMAIN dom |->
     IF dom[k].id = id THEN [dom[k] EXCEPT !.value = value] ELSE dom[k]]

\* The value attribute of the first element with this name.
ValueOf(dom, name) ==
  LET hits == {k \in DOMAIN dom : dom[k].name = name}
  IN  IF hits = {} THEN Undefined
      ELSE Str(dom[CHOOSE k \in hits : \A m \in hits : k <= m].value)

BoolTrue == [kind |-> "bool", b |-> TRUE]

\* String(v), as URLSearchParams applies it to a value.
ToText(v) ==
  CASE v.kind = "str" -> v.s
    [] v.kind = "bool" -> <<"true">>
    [] v.kind = "num" -> Digits(v.n)
    [] OTHER -> <<"undefined">>

\* The reduce over the DOM's elements of extractFormDataFromDOM: each
\* element writes its value under its name, in document order.
RECURSIVE ReduceElements(_, _, _)
ReduceElements(dom, k, form) ==
  IF k > Len(dom) THEN form
  ELSE ReduceElements(dom, k + 1,
         (dom[k].name :> Str(dom[k].value)) @@ form)

\* The seed of that reduce: { __ASYNCPOST: true, ...extraFormValues }
SeedForm(extraFormValues) == extraFormValues @@ (AsyncPost :> BoolTrue)

\* allFields of extractFormDataFromDOM
AllFields(dom, extraFormValues) ==
  ReduceElements(dom, 1, SeedForm(extraFormValues))

\* Every name of allFields, the whitelist set aside.
FormKeysMutant(filterFields, allFields, seen) ==
  LET names == DOMAIN allFields
      RECURSIVE Enum(_)
      Enum(S) == IF S = {} THEN <<>>
                 ELSE LET x == CHOOSE x \in S : TRUE
                      IN  <<x>> \o Enum(S \ {x})
  IN  Enum(names)

\* The keys of form, in insertion order: the whitelist's order, a name
\* that occurs twice in the whitelist inserted once.
RECURSIVE FormKeys(_, _, _)
FormKeys(filterFields, allFields, seen) ==
  IF filterFields = <<>> THEN <<>>
  ELSE LET f == filterFields[1]
       IN  IF f \in DOMAIN allFields /\ f \notin seen
             THEN <<f>> \o FormKeys(Tail(filterFields), allFields, seen \cup {f})
             ELSE FormKeys(Tail(filterFields), allFields, seen)

\* CeiUtils.extractFormDataFromDOM.  The body is kept as the list of
\* (name, value) pairs that URLSearchParams serialises, in its order; the
\* percent-encoding of the pairs is left out.
extractFormDataFromDOM(dom, filterFields, extraFormValues) ==
  LET allFields == AllFields(dom, extraFormValues)
      keys == FormKeys(filterFields, allFields, {})
  IN  [k \in 1..Len(keys) |->
         [name |-> keys[k], value |-> ToText(allFields[keys[k]])]]

\* The value a body carries for a name (Undefined when it has none).
BodyValue(body, name) ==
  LET hits == {k \in DOMAIN body : body[k].name = name}
  IN  IF hits = {} THEN Undefined
      ELSE Str(body[CHOOSE k \in hits : TRUE].value)

\* A variant that applies no update.
updateFieldsDOMMutant(dom, fields) == dom

\* A variant in which the first entry of an id wins: the entries are
\* applied from the last to the first.
RECURSIVE updateFieldsDOMFirstWins(_, _)
updateFieldsDOMFirstWins(dom, fields) ==
  IF fields = <<>> THEN dom
  ELSE LET field == fields[Len(fields)]
           next == IF field.value # Str(<<"0">>) /\ field.value.kind = "str"
                        /\ field.id.kind = "str" /\ Len(field.id.s) = 1
                     THEN SetAttr(dom, field.id.s[1], field.value.s)
                     ELSE dom
       IN  updateFieldsDOMFirstWins(next, SubSeq(fields, 1, Len(fields) - 1))

\* A variant without the test of the sentinel.
RECURSIVE updateFieldsDOMNoSentinel(_, _)
updateFieldsDOMNoSentinel(dom, fields) ==
  IF fields = <<>> THEN dom
  ELSE LET field == fields[1]
           next == IF field.value.kind = "str"
                        /\ field.id.kind = "str" /\ Len(field.id.s) = 1
                     THEN SetAttr(dom, field.id.s[1], field.value.s)
                     ELSE dom
       IN  updateFieldsDOMNoSentinel(next, Tail(fields))

\* CeiUtils.updateFieldsDOM: attr('value', undefined) reads and sets
\* nothing.
RECURSIVE updateFieldsDOM(_, _)
updateFieldsDOM(dom, fields) ==
  IF fields = <<>> THEN dom
  ELSE LET field == fields[1]
           next == IF field.value # Str(<<"0">>) /\ field.value.kind = "str"
                        /\ field.id.kind = "str" /\ Len(field.id.s) = 1
                     THEN SetAttr(dom, field.id.s[1], field.value.s)
                     ELSE dom
       IN  updateFieldsDOM(next, Tail(fields))

(***************************************************************************)
(* Options of a select: [value, label].  The filter `value > 0` converts   *)
(* the value attribute to a number.                                        *)
(***************************************************************************)
\* Number(text) for the option values of the model: blanks around an
\* optionally signed run of digits; the empty text is 0.
ToNumber(text) ==
  LET t == Trim(text)
      neg == t # <<>> /\ t[1] = "-"
      body == IF neg THEN Tail(t) ELSE t
  IN  IF t = <<>> THEN Num(0)
      ELSE IF body # <<>> /\ DigitRun(body) = body
        THEN Num(IF neg THEN 0 - DecimalValue(body, 0)
                 ELSE DecimalValue(body, 0))
      ELSE NaN

\* A variant that keeps the value zero.
GreaterThanZeroMutant(text) ==
  LET n == ToNumber(text) IN n.kind = "num" /\ n.n >= 0

GreaterThanZero(text) ==
  LET n == ToNumber(text) IN n.kind = "num" /\ n.n > 0

\* .filter(institution => institution.value > 0)
RECURSIVE FilterOptions(_)
FilterOptions(options) ==
  IF options = <<>> THEN <<>>
  ELSE (IF GreaterThanZero(options[1].value) THEN <<options[1]>> ELSE <<>>)
       \o FilterOptions(Tail(options))

\* .map(option => option.attribs.value)
OptionValues(options) == [k \in DOMAIN options |-> options[k].value]

(***************************************************************************)
(* The server.  A delta response is a line of entries                      *)
(* length|type|id|content| ; the model keeps beside it the options that    *)
(* cheerio reads from the response's markup.                               *)
(***************************************************************************)
BoundedSeqs(S, n) == UNION {[1..k -> S] : k \in 0..n}

DeltaEntry(type, id, content) ==
  Digits(Len(content)) \o <<"|", type, "|">> \o id \o <<"|">> \o content
    \o <<"|">>

HiddenField(id, content) == DeltaEntry("hiddenField", <<id>>, content)

ScriptBlock(content) ==
  DeltaEntry("scriptBlock", <<"ScriptContentNoTags">>, content)

\* A value the server issues with its n-th response.
Fresh(word, n) == <<word>> \o Digits(n)

\* The hidden fields of a response, by kind of response.
\* "full": the three fields the server always resets, an outdated view
\* state and the new one; "fresh": the new view state alone.
HiddenKinds == {"none", "full"}

HiddenFields(kind, n) ==
  CASE kind = "fresh" ->
         HiddenField(ViewState, Fresh("vs", n))
    [] kind = "full" ->
         HiddenField(EventTarget, <<>>)
           \o HiddenField(EventArgument, <<>>)
           \o HiddenField(ViewState, Fresh("old", n))
           \o HiddenField(ViewState, Fresh("vs", n))
    [] OTHER -> <<>>

\* A message-display call: CEIWeb.IncluirMensagem(severity, 'text');
Message(severity, quote, text) ==
  [severity |-> severity, quote |-> quote, text |-> text]

NoServerMessage == [severity |-> 0 - 1, quote |-> "'", text |-> <<>>]

MessageScript(msg) ==
  IF msg = NoServerMessage THEN <<>>
  ELSE ScriptBlock(<<MessageCall, "(">> \o Digits(msg.severity) \o <<",">>
                     \o <<msg.quote>> \o msg.text \o <<msg.quote>>
                     \o <<")", ";">>)

ErroAoGerar == <<"Erro", " ", "ao", " ", "gerar">>

\* The messages of the crawl's report responses: none, a warning, and
\* fatal messages of several texts and quotings.
ReportMessages ==
  {NoServerMessage,
   Message(1, "'", ErroAoGerar),
   Message(2, "'", ErroAoGerar),
   Message(2, "'", <<"Erro", ";", " ", "tente">>),
   Message(2, "'", <<"Sem", " ", " ", "dados">>)}

InstitutionMessages == {NoServerMessage, Message(2, "'", ErroAoGerar)}

\* The download directive of a report response.
DownloadPrefix ==
  <<"GotoDownloadPage", "(", " ", "'", "/Relatorio/Relatorio.aspx?ID=", "'",
    ",", "'">>

DownloadSuffix == <<"'", ")", ";">>

DownloadScript(reportId) ==
  ScriptBlock(DownloadPrefix \o reportId \o DownloadSuffix)

\* Option lists: the k-th option of a list is either a real entry, of
\* value k (institutions) or 10k (accounts), or a placeholder, of value 0
\* at the odd places and -1 at the even ones.
Placeholder(k) ==
  IF k % 2 = 1 THEN [value |-> <<"0">>, label |-> <<"Selecione">>]
  ELSE [value |-> <<"-", "1">>, label |-> <<"Todos">>]

InstitutionOption(k) ==
  [value |-> Digits(k), label |-> <<"CORRETORA">> \o Digits(k)]

AccountOption(k) == [value |-> Digits(10 * k), label |-> Digits(10 * k)]

RealOption(select, k) ==
  IF select = SELECT_INSTITUTION THEN InstitutionOption(k)
  ELSE AccountOption(k)

OptionLists(select, n) ==
  UNION {{[k \in 1..len |->
             IF flags[k] THEN RealOption(select, k) ELSE Placeholder(k)] :
            flags \in [1..len -> BOOLEAN]} : len \in 0..n}

MonthOption(day, month, year) ==
  [value |-> day \o <<"/">> \o month \o <<"/">> \o year \o <<TimeSuffix>>,
   label |-> month \o <<"/">> \o year]

MonthLists ==
  {<<MonthOption(<<"3", "1">>, <<"0", "1">>, <<"2", "0", "2", "0">>),
     MonthOption(<<"3", "0">>, <<"0", "6">>, <<"2", "0", "2", "3">>)>>}

\* The response to an institution postback, the server's n-th response.
InstitutionResponse(accountOptions, monthOptions, hidden, msg, n) ==
  [accountOptions |-> accountOptions,
   monthOptions |-> monthOptions,
   msg |-> msg,
   viewState |-> IF hidden = "full" THEN Str(Fresh("vs", n)) ELSE Undefined,
   text |-> HiddenFields(hidden, n) \o MessageScript(msg)]

InstitutionResponses(n) ==
  {InstitutionResponse(a, m, h, msg, n) :
     a \in OptionLists(SELECT_ACCOUNT, MaxAcc), m \in MonthLists,
     h \in HiddenKinds, msg \in InstitutionMessages}

\* The response to a report postback.
ReportResponse(script, msg, n) ==
  [script |-> script,
   msg |-> msg,
   viewState |-> Str(Fresh("vs", n)),
   text |-> HiddenFields("fresh", n)
              \o (IF script THEN DownloadScript(Fresh("R", n)) ELSE <<>>)
              \o MessageScript(msg)]

ReportResponses(n) ==
  {ReportResponse(s, msg, n) : s \in BOOLEAN, msg \in ReportMessages}

NoResponse ==
  [accountOptions |-> <<>>, script |-> FALSE, msg |-> NoServerMessage,
   viewState |-> Undefined, text |-> <<>>]

(***************************************************************************)
(* State of one run of getStatement or getStatementOptions.                *)
(***************************************************************************)
VARIABLES
  mode,         \* "statement": getStatement; "options": getStatementOptions
  pc,           \* where the run is: start, institution, account, download,
                \* done (returned), failed (an error was raised)
  capDates,     \* options.capDates
  date,         \* the date argument
  pageOptions,  \* the institution options of the page the server serves
  dom,          \* domPage
  institutions, \* the institutions to iterate
  instIdx,      \* index of the institution of the current iteration
  instDoc,      \* reqInstitutionDOM: account and month options
  accounts,     \* the accounts of the current institution
  acctIdx,      \* index of the account of the current iteration
  result,       \* the AccountWallets collected
  raised,       \* the error raised, when pc = "failed"
  files,        \* the files of options.downloadedFolder
  pending,      \* the report being downloaded, when pc = "download"
  lastReq,      \* the last request sent
  reqCount,     \* the number of requests sent, by kind
  lastInst,     \* the last response to an institution postback
  lastReport,   \* the last response to a report postback
  expected      \* the (institution, account) pairs the server has listed

crawlVars ==
  <<mode, pc, capDates, date, pageOptions, dom, institutions, instIdx,
    instDoc, accounts, acctIdx, result, raised, files, pending, lastReq,
    reqCount, lastInst, lastReport, expected>>

\* State of one call of CeiUtils.retry.
VARIABLES
  rpc,        \* call: about to invoke the callback; sleep: in sleep(100);
              \* returned; raised
  attemptsArg,\* the attempts argument
  attempts,   \* the local variable attempts
  calls,      \* invocations of the callback so far
  sleeps,     \* calls of CeiUtils.sleep so far
  failures,   \* the errors the callback failed with, in order
  rresult     \* the value returned, when rpc = "returned"

retryVars == <<rpc, attemptsArg, attempts, calls, sleeps, failures, rresult>>

\* State of one call of CeiUtils.extractFormDataFromDOM.
VARIABLES
  fpc,      \* start, done
  fdom,     \* dom
  ffilter,  \* filterFields
  fextra,   \* extraFormValues
  fbody     \* the result

formVars == <<fpc, fdom, ffilter, fextra, fbody>>

\* State of one decoding of a response: extractMessagePostResponse and
\* extractUpdateForm on its text, then updateFieldsDOM with the entries.
VARIABLES
  dpc,      \* start, decoded, applied
  dentries, \* the entries the server wrote on the response's last line
  dprefix,  \* whether the response has a line before the last one
  dscript,  \* extractScript
  ddom,     \* the DOM the entries are applied to
  dmsg,     \* the result of extractMessagePostResponse
  dfields,  \* the result of extractUpdateForm
  dafter    \* the DOM after updateFieldsDOM

decodeVars == <<dpc, dentries, dprefix, dscript, ddom, dmsg, dfields, dafter>>

\* State of one computation of the month value of getStatement.
VARIABLES
  mpc,       \* start, done
  mdate,     \* the date argument
  mcapDates, \* options.capDates
  mmonths,   \* the month options of the institution's response
  mvalue     \* the value set on the month select

monthVars == <<mpc, mdate, mcapDates, mmonths, mvalue>>

\* State of one call of CeiUtils.parseSheetData.
VARIABLES
  spc,         \* start, done
  srows,       \* the rows of the first sheet
  sskipHeader, \* skipHeader
  sitems       \* the result

sheetVars == <<spc, srows, sskipHeader, sitems>>

\* State of one call of CeiUtils.parseTableTypes.
VARIABLES
  tpc,         \* start, done, raised
  tdata,       \* the rows: objects of column name and value
  ttype,       \* the type the definition declares for the column
  tparsed      \* the result

tableVars == <<tpc, tdata, ttype, tparsed>>

InitialDom ==
  <<Element(EventTarget, EventTarget, <<>>),
    Element(EventArgument, EventArgument, <<>>),
    Element(LastFocus, LastFocus, <<>>),
    Element(ViewState, ViewState, <<"vs", "0">>),
    Element(ViewStateGenerator, ViewStateGenerator, <<"gen">>),
    Element(EventValidation, EventValidation, <<"ev", "0">>),
    Element(SELECT_INSTITUTION, DdlAgentes, <<>>),
    Element(SELECT_ACCOUNT, DdlContas, <<>>),
    Element(SELECT_MONTH, DdlFiltroMes, <<>>),
    Element("ctl00_ContentPlaceHolder1_btnConsultar", BtnConsultar,
            <<"Consultar">>)>>

NoRequest == [kind |-> "none", body |-> <<>>, reportId |-> <<>>]

Request(kind, body) == [kind |-> kind, body |-> body, reportId |-> <<>>]

Requests == reqCount.page + reqCount.institution + reqCount.report
              + reqCount.download

Count(kind) == [reqCount EXCEPT ![kind] = @ + 1]

NoError == [type |-> "none", message |-> Undefined]

CrawlCapDates == {TRUE}

CrawlDates == {[valid |-> TRUE, y |-> 2022, m |-> 3, d |-> 15]}

CrawlInit ==
  /\ mode \in {"statement", "options"}
  /\ pc = "start"
  /\ capDates \in CrawlCapDates
  /\ date \in CrawlDates
  /\ pageOptions \in OptionLists(SELECT_INSTITUTION, MaxInst)
  /\ dom = <<>>
  /\ institutions = <<>>
  /\ instIdx = 1
  /\ instDoc = [accountOptions |-> <<>>, monthOptions |-> <<>>]
  /\ accounts = <<>>
  /\ acctIdx = 1
  /\ result = <<>>
  /\ raised = NoError
  /\ files = {}
  /\ pending = [fileName |-> <<>>, reportId |-> <<>>]
  /\ lastReq = NoRequest
  /\ reqCount = [page |-> 0, institution |-> 0, report |-> 0, download |-> 0]
  /\ lastInst = NoResponse
  /\ lastReport = NoResponse
  /\ expected = <<>>

\* A rejected fetch: the error leaves the function.
TransportFailure == [type |-> "TransportFailure", message |-> Undefined]

\* cookieManager.fetch(PAGE.URL); cheerio.load; the institutions to iterate
GetPage ==
  /\ pc = "start"
  /\ lastReq' = Request("page", <<>>)
  /\ reqCount' = Count("page")
  /\ \/ /\ dom' = InitialDom
        /\ institutions' = FilterOptions(pageOptions)
        /\ pc' = "institution"
        /\ UNCHANGED raised
     \/ /\ pc' = "failed"
        /\ raised' = TransportFailure
        /\ UNCHANGED <<dom, institutions>>
  /\ UNCHANGED <<mode, capDates, date, pageOptions, instIdx, instDoc,
                 accounts, acctIdx, result, files, pending, lastInst,
                 lastReport, expected>>
  /\ UNCHANGED <<retryVars, formVars, decodeVars, monthVars, sheetVars,
                 tableVars>>

(***************************************************************************)
(* The pieces of the loop bodies.                                          *)
(***************************************************************************)
\* .filter(account => account > 0)
RECURSIVE FilterValues(_)
FilterValues(values) ==
  IF values = <<>> THEN <<>>
  ELSE (IF GreaterThanZero(values[1]) THEN <<values[1]>> ELSE <<>>)
       \o FilterValues(Tail(values))

\* The result of _getFileAndParse when no report was generated.
EmptyStatement == [assetsCustody |-> <<>>, assetsGuarantee |-> <<>>]

Statement(assetsCustody, assetsGuarantee) ==
  [assetsCustody |-> assetsCustody, assetsGuarantee |-> assetsGuarantee]

\* What the two parseSheetData calls may return for a saved report.
ParsedStatements ==
  {Statement(<<>>, <<>>), Statement(<<"record">>, <<"record">>)}

AccountWallet(institution, account, month, statement) ==
  [institution |-> institution.label, account |-> account, month |-> month,
   assetsCustody |-> statement.assetsCustody,
   assetsGuarantee |-> statement.assetsGuarantee]

\* A variant that keeps no wallet for an account without assets.
PushWalletMutant(res, wallet) ==
  IF wallet.assetsCustody = <<>> /\ wallet.assetsGuarantee = <<>> THEN res
  ELSE Append(res, wallet)

\* result.push({...})
PushWallet(res, wallet) == Append(res, wallet)

\* `${institution.value}_${account}.xls`
FileName(institution, account) ==
  institution.value \o <<"_">> \o account \o <<".xls">>

\* CeiUtils.removeFile
removeFile(dir, fileName) == dir \ {fileName}

\* The file that CeiUtils.saveFile writes.
saveFile(dir, fileName) == dir \cup {fileName}

SubmitError(message) == [type |-> "SUBMIT_ERROR", message |-> message]

TypeError == [type |-> "TypeError", message |-> Undefined]

SaveError == [type |-> "SaveError", message |-> Undefined]

ParseError == [type |-> "ParseError", message |-> Undefined]

\* A variant that takes severity 1 for the fatal one.
IsFatalMutant(errorMessage) == errorMessage.type = Num(1)

\* errorMessage && errorMessage.type === 2
IsFatal(errorMessage) == errorMessage.type = Num(2)

\* formFields.find(field => field.id.indexOf('GotoDownloadPage') > -1):
\* [threw, found, field]; reading indexOf of an undefined id throws.
RECURSIVE FindReportScript(_)
FindReportScript(formFields) ==
  IF formFields = <<>>
    THEN [threw |-> FALSE, found |-> FALSE, id |-> <<>>]
  ELSE IF formFields[1].id.kind # "str"
    THEN [threw |-> TRUE, found |-> FALSE, id |-> <<>>]
  ELSE IF Includes(formFields[1].id.s, "GotoDownloadPage")
    THEN [threw |-> FALSE, found |-> TRUE, id |-> formFields[1].id.s]
  ELSE FindReportScript(Tail(formFields))

\* String.prototype.replace(pattern, '') for a pattern of several symbols:
\* the first occurrence goes.
RECURSIVE RemoveFirstSub(_, _)
RemoveFirstSub(s, sub) ==
  IF Len(s) < Len(sub) THEN s
  ELSE IF SubSeq(s, 1, Len(sub)) = sub THEN SubSeq(s, Len(sub) + 1, Len(s))
  ELSE <<s[1]>> \o RemoveFirstSub(Tail(s), sub)

ReportId(scriptId) ==
  RemoveFirstSub(RemoveFirstSub(scriptId, DownloadPrefix), DownloadSuffix)

\* The pairs a response lists for an institution, placeholders left out.
PlaceholderValues == {<<"0">>, <<"-", "1">>}

RECURSIVE ListedPairs(_, _)
ListedPairs(label, accountOptions) ==
  IF accountOptions = <<>> THEN <<>>
  ELSE (IF accountOptions[1].value \in PlaceholderValues THEN <<>>
        ELSE <<[institution |-> label, account |-> accountOptions[1].value]>>)
       \o ListedPairs(label, Tail(accountOptions))

(***************************************************************************)
(* getStatement, lines 128-155: one institution is selected, in a run of   *)
(* mode m.                                                                 *)
(***************************************************************************)
SelectInstitutionIn(m) ==
  /\ pc = "institution"
  /\ mode = m
  /\ instIdx <= Len(institutions)
  /\ LET institution == institutions[instIdx]
         d1 == SetAttr(dom, SELECT_INSTITUTION, institution.value)
         formDataInstitution ==
           extractFormDataFromDOM(d1, FETCH_FORMS_STATEMENT_INSTITUTION,
                                  InstitutionOverrides)
     IN  /\ lastReq' = Request("institution", formDataInstitution)
         /\ reqCount' = Count("institution")
         /\ \/ /\ pc' = "failed"
               /\ raised' = TransportFailure
               /\ dom' = d1
               /\ UNCHANGED <<instIdx, instDoc, accounts, acctIdx, lastInst,
                              expected>>
            \/ \E r \in InstitutionResponses(Requests + 1) :
                 \E updtForm \in {extractUpdateForm(r.text, FALSE)} :
                 \E accs \in {FilterValues(OptionValues(r.accountOptions))} :
                     /\ dom' = updateFieldsDOM(d1, updtForm)
                     /\ instDoc' = [accountOptions |-> r.accountOptions,
                                    monthOptions |-> r.monthOptions]
                     /\ accounts' = accs
                     /\ acctIdx' = 1
                     /\ IF accs = <<>>
                          THEN pc' = "institution" /\ instIdx' = instIdx + 1
                          ELSE pc' = "account" /\ instIdx' = instIdx
                     /\ lastInst' = r
                     /\ expected' = expected
                          \o ListedPairs(institution.label, r.accountOptions)
                     /\ UNCHANGED raised
  /\ UNCHANGED <<mode, capDates, date, pageOptions, institutions, result,
                 files, pending, lastReport>>
  /\ UNCHANGED <<retryVars, formVars, decodeVars, monthVars, sheetVars,
                 tableVars>>

SelectInstitution == SelectInstitutionIn("statement")

\* A variant that leaves the institution after its first account.
NextAccountMutant ==
  pc' = "institution" /\ acctIdx' = acctIdx /\ instIdx' = instIdx + 1

\* The end of an iteration of the account loop.
NextAccount ==
  IF acctIdx < Len(accounts)
    THEN pc' = "account" /\ acctIdx' = acctIdx + 1 /\ instIdx' = instIdx
    ELSE pc' = "institution" /\ acctIdx' = acctIdx /\ instIdx' = instIdx + 1

(***************************************************************************)
(* getStatement, lines 156-209 with _getFileAndParse, lines 278-312: one   *)
(* account is selected and its report is asked for.                        *)
(***************************************************************************)
ProcessAccount ==
  /\ pc = "account"
  /\ LET institution == institutions[instIdx]
         account == accounts[acctIdx]
         months == OptionValues(instDoc.monthOptions)
         newDate == MonthValue(date, capDates, months)
         d1 == SetAttr(SetAttr(dom, SELECT_ACCOUNT, account),
                       SELECT_MONTH, newDate)
         fileName == FileName(institution, account)
         d2 == SetAttr(SetAttr(d1, EventTarget, <<BtnVersaoEXCEL>>),
                       LastFocus, <<>>)
         formDataStatement ==
           extractFormDataFromDOM(d2, FETCH_FORMS_STATEMENT_ACCOUNT,
                                  ReportOverrides)
     IN  /\ dom' = d2
         /\ lastReq' = Request("report", formDataStatement)
         /\ reqCount' = Count("report")
         /\ \/ /\ pc' = "failed"
               /\ raised' = TransportFailure
               /\ UNCHANGED <<instIdx, acctIdx, result, files, pending,
                              lastReport>>
            \/ \E r \in ReportResponses(Requests + 1) :
                 \E statementText \in {normalizeWhitespace(r.text)} :
                 \E errorMessage \in {extractMessagePostResponse(statementText)} :
                 \E reportScript \in
                      {FindReportScript(extractUpdateForm(statementText, TRUE))} :
                     /\ lastReport' = r
                     /\ IF IsFatal(errorMessage)
                          THEN /\ pc' = "failed"
                               /\ raised' = SubmitError(errorMessage.message)
                               /\ UNCHANGED <<instIdx, acctIdx, result, files,
                                              pending>>
                        ELSE IF reportScript.threw
                          THEN /\ pc' = "failed"
                               /\ raised' = TypeError
                               /\ UNCHANGED <<instIdx, acctIdx, result, files,
                                              pending>>
                        ELSE IF reportScript.found
                          THEN /\ pc' = "download"
                               /\ pending' =
                                    [fileName |-> fileName,
                                     reportId |-> ReportId(reportScript.id)]
                               /\ UNCHANGED <<instIdx, acctIdx, result, files,
                                              raised>>
                        ELSE /\ files' = removeFile(files, fileName)
                             /\ result' = PushWallet(result,
                                  AccountWallet(institution, account, date,
                                                EmptyStatement))
                             /\ NextAccount
                             /\ UNCHANGED <<pending, raised>>
  /\ UNCHANGED <<mode, capDates, date, pageOptions, institutions, instDoc,
                 accounts, lastInst, expected>>
  /\ UNCHANGED <<retryVars, formVars, decodeVars, monthVars, sheetVars,
                 tableVars>>

(***************************************************************************)
(* _getFileAndParse, lines 314-341, and getStatement, lines 200-208: the   *)
(* report is fetched, saved and parsed, the file removed, the wallet kept. *)
(***************************************************************************)
Download ==
  /\ pc = "download"
  /\ LET institution == institutions[instIdx]
         account == accounts[acctIdx]
         fileName == pending.fileName
     IN  /\ lastReq' = [kind |-> "download", body |-> <<>>,
                        reportId |-> pending.reportId]
         /\ reqCount' = Count("download")
         /\ \/ /\ pc' = "failed"
               /\ raised' = TransportFailure
               /\ UNCHANGED <<instIdx, acctIdx, result, files>>
            \/ /\ pc' = "failed"
               /\ raised' = SaveError
               /\ files' \in {files, saveFile(files, fileName)}
               /\ UNCHANGED <<instIdx, acctIdx, result>>
            \/ /\ pc' = "failed"
               /\ raised' = ParseError
               /\ files' = saveFile(files, fileName)
               /\ UNCHANGED <<instIdx, acctIdx, result>>
            \/ \E statement \in ParsedStatements :
                 /\ files' = removeFile(saveFile(files, fileName), fileName)
                 /\ result' = PushWallet(result,
                      AccountWallet(institution, account, date, statement))
                 /\ NextAccount
                 /\ UNCHANGED raised
  /\ UNCHANGED <<mode, capDates, date, pageOptions, dom, institutions,
                 instDoc, accounts, pending, lastInst, lastReport, expected>>
  /\ UNCHANGED <<retryVars, formVars, decodeVars, monthVars, sheetVars,
                 tableVars>>

(***************************************************************************)
(* getStatementOptions, lines 233-263: one institution is listed.          *)
(***************************************************************************)
\* A variant that runs getStatement's iteration.
DiscoverInstitutionMutant == SelectInstitutionIn("options")

DiscoverInstitution ==
  /\ pc = "institution"
  /\ mode = "options"
  /\ instIdx <= Len(institutions)
  /\ LET institution == institutions[instIdx]
         d1 == SetAttr(dom, SELECT_INSTITUTION, institution.value)
         formDataStr ==
           extractFormDataFromDOM(d1, FETCH_FORMS_STATEMENT_INSTITUTION,
                                  InstitutionOverrides)
     IN  /\ dom' = d1
         /\ lastReq' = Request("institution", formDataStr)
         /\ reqCount' = Count("institution")
         /\ \/ /\ pc' = "failed"
               /\ raised' = TransportFailure
               /\ UNCHANGED <<institutions, instIdx, lastInst, expected>>
            \/ \E r \in InstitutionResponses(Requests + 1) :
                 /\ institutions' =
                      [institutions EXCEPT ![instIdx] =
                         [value |-> institution.value,
                          label |-> institution.label,
                          accounts |->
                            FilterValues(OptionValues(r.accountOptions)),
                          months |-> r.monthOptions]]
                 /\ instIdx' = instIdx + 1
                 /\ lastInst' = r
                 /\ expected' = expected
                      \o ListedPairs(institution.label, r.accountOptions)
                 /\ UNCHANGED <<pc, raised>>
  /\ UNCHANGED <<mode, capDates, date, pageOptions, instDoc, accounts,
                 acctIdx, result, files, pending, lastReport>>
  /\ UNCHANGED <<retryVars, formVars, decodeVars, monthVars, sheetVars,
                 tableVars>>

\* return result; return { institutions }
Return ==
  /\ pc = "institution"
  /\ instIdx > Len(institutions)
  /\ pc' = "done"
  /\ UNCHANGED <<mode, capDates, date, pageOptions, dom, institutions,
                 instIdx, instDoc, accounts, acctIdx, result, raised, files,
                 pending, lastReq, reqCount, lastInst, lastReport, expected>>
  /\ UNCHANGED <<retryVars, formVars, decodeVars, monthVars, sheetVars,
                 tableVars>>

CrawlNext ==
  \/ GetPage
  \/ SelectInstitution
  \/ ProcessAccount
  \/ Download
  \/ DiscoverInstitution
  \/ Return

(***************************************************************************)
(* CeiUtils.retry: one call retry(callback, checkRetryCallback, attempts). *)
(* The callback fails with an error that checkRetryCallback accepts or     *)
(* refuses, or succeeds.                                                   *)
(***************************************************************************)

\* attempts = 3
DefaultAttempts == 3

RetryInit ==
  /\ rpc = "call"
  /\ attemptsArg \in (0 - 1)..MaxAttempts
  /\ attempts = attemptsArg
  /\ calls = 0
  /\ sleeps = 0
  /\ failures = <<>>
  /\ rresult = Undefined

\* The errors of the callback; checkRetryCallback(e) refuses the last.
RetryErrors == {"ETIMEDOUT", "ECONNRESET", "nonRetryable"}

checkRetryCallback(e) == e # "nonRetryable"

\* A variant that gives up one attempt early.
ExhaustedMutant(n) == n <= 1

\* attempts === 0
Exhausted(n) == n = 0

\* result = await callback(), and the catch block when it fails.
RetryCall ==
  /\ rpc = "call"
  /\ calls < MaxCalls
  /\ calls' = calls + 1
  /\ \/ /\ rresult' = Str(<<"value">>)
        /\ rpc' = "returned"
        /\ UNCHANGED <<attempts, failures>>
     \/ \E e \in RetryErrors :
          /\ failures' = Append(failures, e)
          /\ IF checkRetryCallback(e)
               THEN /\ attempts' = attempts - 1
                    /\ rpc' = IF Exhausted(attempts - 1) THEN "raised"
                              ELSE "sleep"
               ELSE /\ rpc' = "raised"
                    /\ UNCHANGED attempts
          /\ UNCHANGED rresult
  /\ UNCHANGED <<attemptsArg, sleeps>>
  /\ UNCHANGED <<crawlVars, formVars, decodeVars, monthVars, sheetVars,
                 tableVars>>

\* await CeiUtils.sleep(100)
RetrySleep ==
  /\ rpc = "sleep"
  /\ sleeps' = sleeps + 1
  /\ rpc' = "call"
  /\ UNCHANGED <<attemptsArg, attempts, calls, failures, rresult>>
  /\ UNCHANGED <<crawlVars, formVars, decodeVars, monthVars, sheetVars,
                 tableVars>>

RetryNext == RetryCall \/ RetrySleep

(***************************************************************************)
(* CeiUtils.extractFormDataFromDOM on its own: one call on a DOM, a        *)
(* whitelist and an override map.                                          *)
(***************************************************************************)

FormElements ==
  {Element(EventTarget, EventTarget, <<>>),
   Element(EventTarget, EventTarget, <<BtnVersaoEXCEL>>),
   Element(ViewState, ViewState, <<"vs", "0">>),
   Element(SELECT_ACCOUNT, DdlContas, <<"1", "0">>),
   Element(AsyncPost, AsyncPost, <<"false">>),
   Element("ctl00_ContentPlaceHolder1_btnConsultar", BtnConsultar,
           <<"Consultar">>)}

FormOverrides ==
  {<<>>, InstitutionOverrides, ReportOverrides,
   (BtnConsultar :> Str(<<"x">>)) @@ (ViewState :> Str(<<"mine">>))}

FormFilters ==
  {FETCH_FORMS_STATEMENT_INSTITUTION, FETCH_FORMS_STATEMENT_ACCOUNT,
   <<EventTarget, ViewState, EventTarget>>}

FormInit ==
  /\ fpc = "start"
  /\ fdom \in BoundedSeqs(FormElements, MaxFormLen)
  /\ ffilter \in FormFilters
  /\ fextra \in FormOverrides
  /\ fbody = <<>>

Encode ==
  /\ fpc = "start"
  /\ fbody' = extractFormDataFromDOM(fdom, ffilter, fextra)
  /\ fpc' = "done"
  /\ UNCHANGED <<fdom, ffilter, fextra>>
  /\ UNCHANGED <<crawlVars, retryVars, decodeVars, monthVars, sheetVars,
                 tableVars>>

(***************************************************************************)
(* The decoding of one response on its own: the text of the response is    *)
(* what the server writes for a list of entries, after an earlier line or  *)
(* not.                                                                    *)
(***************************************************************************)
Entry(type, id, content, msg) ==
  [type |-> type, id |-> id, content |-> content, msg |-> msg]

HiddenEntry(id, content) ==
  Entry("hiddenField", <<id>>, content, NoServerMessage)

ScriptEntry(content, msg) ==
  Entry("scriptBlock", <<"ScriptContentNoTags">>, content, msg)

MessageEntry(msg) ==
  ScriptEntry(<<MessageCall, "(">> \o Digits(msg.severity) \o <<",">>
                \o <<msg.quote>> \o msg.text \o <<msg.quote>>
                \o <<")", ";">>, msg)

DecodeEntries ==
  {HiddenEntry(ViewState, <<"a">>),
   HiddenEntry(ViewState, <<"b">>),
   HiddenEntry(ViewState, <<"0">>),
   HiddenEntry(EventTarget, <<>>),
   ScriptEntry(DownloadPrefix \o <<"R", "1">> \o DownloadSuffix,
               NoServerMessage),
   MessageEntry(Message(2, "'", ErroAoGerar)),
   MessageEntry(Message(2, "\"", ErroAoGerar)),
   Entry("updatePanel", <<PnlPanel>>, <<"html">>, NoServerMessage)}

RECURSIVE EntriesText(_)
EntriesText(entries) ==
  IF entries = <<>> THEN <<>>
  ELSE DeltaEntry(entries[1].type, entries[1].id, entries[1].content)
         \o EntriesText(Tail(entries))

\* await req.text()
ResponseText(prefix, entries) ==
  (IF prefix THEN HiddenField(ViewState, <<"stale">>) \o <<"\n">> ELSE <<>>)
    \o EntriesText(entries)

DecodeDom ==
  <<Element(EventTarget, EventTarget, <<BtnVersaoEXCEL>>),
    Element(ViewState, ViewState, <<"vs", "0">>),
    Element(SELECT_ACCOUNT, DdlContas, <<"1", "0">>)>>

DecodeInit ==
  /\ dpc = "start"
  /\ dentries \in BoundedSeqs(DecodeEntries, MaxEntries)
  /\ dprefix \in BOOLEAN
  /\ dscript \in BOOLEAN
  /\ ddom = DecodeDom
  /\ dmsg = NoMessage
  /\ dfields = <<>>
  /\ dafter = <<>>

\* extractMessagePostResponse(text) and extractUpdateForm(text, extractScript)
Decode ==
  /\ dpc = "start"
  /\ \E text \in {ResponseText(dprefix, dentries)} :
       /\ dmsg' = extractMessagePostResponse(text)
       /\ dfields' = extractUpdateForm(text, dscript)
  /\ dpc' = "decoded"
  /\ UNCHANGED <<dentries, dprefix, dscript, ddom, dafter>>
  /\ UNCHANGED <<crawlVars, retryVars, formVars, monthVars, sheetVars,
                 tableVars>>

\* updateFieldsDOM(domPage, updtForm): the code applies the entries it
\* decoded without the scripts.
Apply ==
  /\ dpc = "decoded"
  /\ ~dscript
  /\ dafter' = updateFieldsDOM(ddom, dfields)
  /\ dpc' = "applied"
  /\ UNCHANGED <<dentries, dprefix, dscript, ddom, dmsg, dfields>>
  /\ UNCHANGED <<crawlVars, retryVars, formVars, monthVars, sheetVars,
                 tableVars>>

(***************************************************************************)
(* The month value of getStatement on its own: lines 164-189 for one date, *)
(* one setting of capDates and one list of month options.                  *)
(***************************************************************************)
Years == 2019..2024

\* The date argument: the first, the tenth and the last day of a month.
MonthDates ==
  {[valid |-> TRUE, y |-> y, m |-> m, d |-> d] :
     y \in Years, m \in 1..12, d \in {1, 10}}
    \cup {[valid |-> TRUE, y |-> y, m |-> m, d |-> DaysInMonth(y, m)] :
            y \in Years, m \in 1..12}

\* A month option of the server: its value is dd/mm/yyyy 00:00:00.
MonthOptionOf(day) ==
  [value |-> Pad2(day.d) \o <<"/">> \o Pad2(day.m) \o <<"/">> \o Digits(day.y)
               \o <<TimeSuffix>>,
   label |-> Pad2(day.m) \o <<"/">> \o Digits(day.y),
   date |-> day]

MonthOptionLists ==
  LET first == [valid |-> TRUE, y |-> 2020, m |-> 1, d |-> 31]
      mid == [valid |-> TRUE, y |-> 2021, m |-> 2, d |-> 28]
      last == [valid |-> TRUE, y |-> 2023, m |-> 6, d |-> 30]
  IN  {<<>>,
       <<MonthOptionOf(first)>>,
       <<MonthOptionOf(first), MonthOptionOf(last)>>,
       <<MonthOptionOf(first), MonthOptionOf(mid), MonthOptionOf(last)>>}

MonthInit ==
  /\ mpc = "start"
  /\ mdate \in MonthDates
  /\ mcapDates \in BOOLEAN
  /\ mmonths \in MonthOptionLists
  /\ mvalue = <<>>

\* getStatement, lines 164-189
ComputeMonth ==
  /\ mpc = "start"
  /\ mvalue' = MonthValue(mdate, mcapDates, OptionValues(mmonths))
  /\ mpc' = "done"
  /\ UNCHANGED <<mdate, mcapDates, mmonths>>
  /\ UNCHANGED <<crawlVars, retryVars, formVars, decodeVars, sheetVars,
                 tableVars>>

(***************************************************************************)
(* CeiUtils.parseSheetData and parseTableTypes.  A row of the sheet is the *)
(* sequence of its cells, [key, value], in the order of Object.keys; a     *)
(* result is [raised, val].  Accented letters of the source's texts are    *)
(* written without the accent.                                             *)
(***************************************************************************)
Null == [kind |-> "null"]

Returned(val) == [raised |-> FALSE, val |-> val]

Raised == [raised |-> TRUE, val |-> <<>>]

\* row[key]
Cell(row, key) ==
  LET hits == {k \in DOMAIN row : row[k].key = key}
  IN  IF hits = {} THEN Undefined ELSE row[CHOOSE k \in hits : TRUE].value

\* String.prototype.replace(/\s+/g, ' ')
RECURSIVE CollapseSpaces(_)
CollapseSpaces(s) ==
  IF s = <<>> THEN <<>>
  ELSE IF IsSpace(s[1]) THEN <<" ">> \o CollapseSpaces(TrimLeft(s))
  ELSE <<s[1]>> \o CollapseSpaces(Tail(s))

\* String.prototype.replace(c, r) for a one-symbol pattern: the first
\* occurrence is replaced.
RECURSIVE ReplaceFirst(_, _, _)
ReplaceFirst(s, c, r) ==
  IF s = <<>> THEN <<>>
  ELSE IF s[1] = c THEN r \o Tail(s)
  ELSE <<s[1]>> \o ReplaceFirst(Tail(s), c, r)

\* The digits of a fraction without its trailing zeros.
RECURSIVE StripZeros(_)
StripZeros(ds) ==
  IF ds # <<>> /\ ds[Len(ds)] = "0"
    THEN StripZeros(SubSeq(ds, 1, Len(ds) - 1))
    ELSE ds

\* parseFloat: blanks, an optional sign, digits, an optional fraction;
\* the number is [int, frac], frac the digits after the point.
parseFloat(text) ==
  LET t == TrimLeft(text)
      neg == t # <<>> /\ t[1] = "-"
      u == IF neg THEN Tail(t) ELSE t
      ds == DigitRun(u)
      rest == SubSeq(u, Len(ds) + 1, Len(u))
      fs == IF rest # <<>> /\ rest[1] = "." THEN DigitRun(Tail(rest))
            ELSE <<>>
  IN  IF ds = <<>> /\ fs = <<>> THEN NaN
      ELSE [kind |-> "float", neg |-> neg, int |-> DecimalValue(ds, 0),
            frac |-> StripZeros(fs)]

\* new Date(value.split("/").reverse()): the date that the text
\* "yyyy,mm,dd" of the reversed parts denotes (a calendar date is assumed).
DateOfParts(parts) ==
  LET part(i) == IF i <= Len(parts) THEN parseInt(parts[i]) ELSE NaN
      month == part(2)
  IN  NewDate(part(3), IF month.kind = "num" THEN Num(month.n - 1) ELSE NaN,
              part(1))

\* parseValue of parseTableTypes
parseValue(value, type) ==
  CASE type = "string" ->
         Returned(Str(Trim(CollapseSpaces(
           IF value.kind = "str" THEN value.s ELSE <<value.kind>>))))
    [] type = "int" ->
         IF value.kind # "str" THEN Raised
         ELSE Returned(parseInt(ReplaceFirst(value.s, ".", <<>>)))
    [] type = "float" ->
         IF value.kind # "str" THEN Raised
         ELSE Returned(parseFloat(
                ReplaceFirst(ReplaceFirst(value.s, ".", <<>>), ",", <<".">>)))
    [] type = "date" ->
         IF value.kind # "str" THEN Raised
         ELSE IF value.s = <<"0", "1", "/", "0", "1", "/", "0", "0", "0", "1">>
           THEN Returned(Null)
         ELSE Returned(DateOfParts(SplitOn(value.s, "/")))
    [] OTHER -> Returned(value)

\* The columns of a header, in the order of Object.keys.
Column(name, type) == [name |-> name, type |-> type]

ASSETS_CUSTODY_HEADER ==
  <<Column("asset", "string"), Column("specification", "string"),
    Column("codCharacter", "string"), Column("ticker", "string"),
    Column("quantity", "float"), Column("price", "default"),
    Column("investedValue", "default"), Column("refDate", "date")>>

ColumnNames(header) == {header[k].name : k \in DOMAIN header}

\* parseTableTypes of one row: every column of the definition, parsed.
ParsedRow(row, tableDefinition) ==
  LET parsed == [k \in DOMAIN tableDefinition |->
                   parseValue(IF tableDefinition[k].name \in DOMAIN row
                                THEN row[tableDefinition[k].name]
                                ELSE Undefined,
                              tableDefinition[k].type)]
  IN  IF \E k \in DOMAIN parsed : parsed[k].raised THEN Raised
      ELSE Returned([name \in ColumnNames(tableDefinition) |->
             parsed[CHOOSE k \in DOMAIN tableDefinition :
                      tableDefinition[k].name = name].val])

\* CeiUtils.parseTableTypes
parseTableTypes(tableData, tableDefinition) ==
  LET parsed == [k \in DOMAIN tableData |->
                   ParsedRow(tableData[k], tableDefinition)]
  IN  IF \E k \in DOMAIN parsed : parsed[k].raised THEN Raised
      ELSE Returned([k \in DOMAIN parsed |-> parsed[k].val])

\* A findIndex that answers the last row holding the text.
FindIndexMutant(rows, rowKey, text) ==
  LET hits == {k \in DOMAIN rows : Cell(rows[k], rowKey) = Str(text)}
  IN  IF hits = {} THEN 0 - 1
      ELSE (CHOOSE k \in hits : \A m \in hits : k >= m) - 1

\* rows.findIndex(row => row[rowKey] === text), 0-based, -1 when none
FindIndex(rows, rowKey, text) ==
  LET hits == {k \in DOMAIN rows : Cell(rows[k], rowKey) = Str(text)}
  IN  IF hits = {} THEN 0 - 1
      ELSE (CHOOSE k \in hits : \A m \in hits : k <= m) - 1

RefDateText == "RESUMO DOS SALDOS EM "

RefDateKey == "__EMPTY_5"

\* rows.find(row => row[refDateKey] && row[refDateKey].startsWith(...)):
\* [raised, val], val the rows found: the first such row, or none.
RECURSIVE FindRefDate(_)
FindRefDate(rows) ==
  IF rows = <<>> THEN Returned(<<>>)
  ELSE LET cell == Cell(rows[1], RefDateKey)
       IN  IF cell.kind = "undefined" \/ cell = Str(<<>>)
             THEN FindRefDate(Tail(rows))
           ELSE IF cell.kind # "str" THEN Raised
           ELSE IF cell.s[1] = RefDateText THEN Returned(<<rows[1]>>)
           ELSE FindRefDate(Tail(rows))

\* The item of one row: its cells under the header's names by position,
\* then refDate.
Item(row, header, refDate) ==
  LET names == {header[k].name : k \in DOMAIN row \cap DOMAIN header}
                 \cup {"refDate"}
  IN  [name \in names |->
         IF name = "refDate" THEN refDate
         ELSE row[CHOOSE k \in DOMAIN row \cap DOMAIN header :
                    header[k].name = name /\
                    \A m \in DOMAIN row \cap DOMAIN header :
                      header[m].name = name => m <= k].value]

\* CeiUtils.parseSheetData, rows the rows of the first sheet of the file
parseSheetData(rows, rowKey, startText, endText, header, skipHeader) ==
  LET rowBegin == FindIndex(rows, rowKey, startText)
      rowEnd == FindIndex(rows, rowKey, endText)
      refDateFound == FindRefDate(rows)
      refDate == IF refDateFound.val = <<>> THEN Null
                 ELSE Str(Trim(Tail(Cell(refDateFound.val[1], RefDateKey).s)))
      skipIndex == IF skipHeader THEN 2 ELSE 1
      first == rowBegin + skipIndex
      items == [j \in 1..(IF rowEnd > first THEN rowEnd - first ELSE 0) |->
                  Item(rows[first + j], header, refDate)]
  IN  IF rowBegin = 0 - 1 \/ rowEnd = 0 - 1 THEN Returned(<<>>)
      ELSE IF refDateFound.raised THEN Raised
      ELSE parseTableTypes(items, header)

(***************************************************************************)
(* parseSheetData on its own: one call on a sheet of a few rows.           *)
(***************************************************************************)
StartText == "Ativos em Custodia"

EndText == "VALORIZACAO EM REAIS"

MarkerRow(text) == <<[key |-> RefDateKey, value |-> Str(text)]>>

\* A row of the table of assets; more are the cells it has beyond the
\* seven columns.
DataRow(asset, quantity, more) ==
  <<[key |-> "__EMPTY", value |-> Str(<<asset>>)],
    [key |-> "__EMPTY_2", value |-> Str(<<"ON", " ", " ", "NM">>)],
    [key |-> "__EMPTY_5", value |-> Str(<<"NAO">>)],
    [key |-> "__EMPTY_7", value |-> Str(<<asset, "3">>)],
    [key |-> "__EMPTY_9", value |-> Str(quantity)],
    [key |-> "__EMPTY_11", value |-> Str(<<"1", "0">>)],
    [key |-> "__EMPTY_13", value |-> Str(<<"9", "9">>)]>> \o more

SheetRows ==
  {MarkerRow(<<RefDateText, "3", "1", "/", "0", "1", "/", "2", "0", "2", "0">>),
   MarkerRow(<<StartText>>),
   MarkerRow(<<EndText>>),
   DataRow("PETR", <<"1", "0", "0">>, <<>>),
   DataRow("VALE", <<"1", ".", "2", "3", "4", ",", "5">>,
           <<[key |-> "__EMPTY_15",
              value |-> Str(<<"1", "5", "/", "0", "3", "/", "2", "0", "1",
                              "9">>)]>>)}

SheetInit ==
  /\ spc = "start"
  /\ srows \in BoundedSeqs(SheetRows, MaxRows)
  /\ sskipHeader \in BOOLEAN
  /\ sitems = <<>>

\* CeiUtils.parseSheetData(filePath, '__EMPTY_5', 'Ativos em Custodia',
\* 'VALORIZACAO EM REAIS', ASSETS_CUSTODY_HEADER, skipHeader)
ParseSheet ==
  /\ spc = "start"
  /\ \E r \in {parseSheetData(srows, RefDateKey, <<StartText>>, <<EndText>>,
                               ASSETS_CUSTODY_HEADER, sskipHeader)} :
       IF r.raised THEN spc' = "raised" /\ sitems' = <<>>
       ELSE spc' = "done" /\ sitems' = r.val
  /\ UNCHANGED <<srows, sskipHeader>>
  /\ UNCHANGED <<crawlVars, retryVars, formVars, decodeVars, monthVars,
                 tableVars>>

(***************************************************************************)
(* parseTableTypes on its own: one call on a table of one column, the      *)
(* values numbers written the Brazilian way, with a dot between the groups *)
(* of three digits.                                                        *)
(***************************************************************************)
\* Number.toString().padStart(3, "0")
Pad3(n) == IF n < 100 THEN <<"0">> \o Pad2(n) ELSE Digits(n)

\* The text of a natural number with dots between its groups of digits.
RECURSIVE Grouped(_)
Grouped(n) ==
  IF n < 1000 THEN Digits(n)
  ELSE Grouped(n \div 1000) \o <<".">> \o Pad3(n % 1000)

TableNumbers ==
  {0, 7, 42, 999, 1000, 1234, 20050, 999999, 1000000, 1234567, 12345678}

TableTypes == {"int", "float", "string", "default"}

TableColumn == "quantity"

TableRows == {(TableColumn :> Str(Grouped(n))) : n \in TableNumbers}

TableInit ==
  /\ tpc = "start"
  /\ tdata \in BoundedSeqs(TableRows, MaxTableRows) \ {<<>>}
  /\ ttype \in TableTypes
  /\ tparsed = <<>>

\* CeiUtils.parseTableTypes(tdata, { quantity: ttype })
ParseTable ==
  /\ tpc = "start"
  /\ \E r \in {parseTableTypes(tdata,
                                 <<Column(TableColumn, ttype)>>)} :
       IF r.raised THEN tpc' = "raised" /\ tparsed' = <<>>
       ELSE tpc' = "done" /\ tparsed' = r.val
  /\ UNCHANGED <<tdata, ttype>>
  /\ UNCHANGED <<crawlVars, retryVars, formVars, decodeVars, monthVars,
                 sheetVars>>

(***************************************************************************)
(* Specifications.                                                         *)
(***************************************************************************)
vars ==
  <<crawlVars, retryVars, formVars, decodeVars, monthVars, sheetVars,
    tableVars>>

DecodeIdle ==
  /\ dpc = "idle"
  /\ dentries = <<>>
  /\ dprefix = FALSE
  /\ dscript = FALSE
  /\ ddom = <<>>
  /\ dmsg = NoMessage
  /\ dfields = <<>>
  /\ dafter = <<>>

MonthIdle ==
  /\ mpc = "idle"
  /\ mdate = InvalidDate
  /\ mcapDates = FALSE
  /\ mmonths = <<>>
  /\ mvalue = <<>>

SheetIdle ==
  /\ spc = "idle"
  /\ srows = <<>>
  /\ sskipHeader = FALSE
  /\ sitems = <<>>

TableIdle ==
  /\ tpc = "idle"
  /\ tdata = <<>>
  /\ ttype = "default"
  /\ tparsed = <<>>

CrawlIdle ==
  /\ mode = "none"
  /\ pc = "idle"
  /\ capDates = FALSE
  /\ date = InvalidDate
  /\ pageOptions = <<>>
  /\ dom = <<>>
  /\ institutions = <<>>
  /\ instIdx = 1
  /\ instDoc = [accountOptions |-> <<>>, monthOptions |-> <<>>]
  /\ accounts = <<>>
  /\ acctIdx = 1
  /\ result = <<>>
  /\ raised = NoError
  /\ files = {}
  /\ pending = [fileName |-> <<>>, reportId |-> <<>>]
  /\ lastReq = NoRequest
  /\ reqCount = [page |-> 0, institution |-> 0, report |-> 0, download |-> 0]
  /\ lastInst = NoResponse
  /\ lastReport = NoResponse
  /\ expected = <<>>

RetryIdle ==
  /\ rpc = "idle"
  /\ attemptsArg = DefaultAttempts
  /\ attempts = DefaultAttempts
  /\ calls = 0
  /\ sleeps = 0
  /\ failures = <<>>
  /\ rresult = Undefined

FormIdle ==
  /\ fpc = "idle"
  /\ fdom = <<>>
  /\ ffilter = <<>>
  /\ fextra = <<>>
  /\ fbody = <<>>

\* The crawl: getStatement and getStatementOptions.
Init ==
  CrawlInit /\ RetryIdle /\ FormIdle /\ DecodeIdle /\ MonthIdle /\ SheetIdle
    /\ TableIdle

Next == CrawlNext

Spec == Init /\ [][Next]_vars

\* retry
InitRetry ==
  RetryInit /\ CrawlIdle /\ FormIdle /\ DecodeIdle /\ MonthIdle /\ SheetIdle
    /\ TableIdle

NextRetry == RetryNext

SpecRetry == InitRetry /\ [][NextRetry]_vars

\* extractFormDataFromDOM
InitForm ==
  FormInit /\ CrawlIdle /\ RetryIdle /\ DecodeIdle /\ MonthIdle /\ SheetIdle
    /\ TableIdle

NextForm == Encode

SpecForm == InitForm /\ [][NextForm]_vars

\* extractMessagePostResponse, extractUpdateForm, updateFieldsDOM
InitDecode ==
  DecodeInit /\ CrawlIdle /\ RetryIdle /\ FormIdle /\ MonthIdle /\ SheetIdle
    /\ TableIdle

NextDecode == Decode \/ Apply

SpecDecode == InitDecode /\ [][NextDecode]_vars

\* The month value of getStatement
InitMonth ==
  MonthInit /\ CrawlIdle /\ RetryIdle /\ FormIdle /\ DecodeIdle /\ SheetIdle
    /\ TableIdle

NextMonth == ComputeMonth

SpecMonth == InitMonth /\ [][NextMonth]_vars

\* parseSheetData
InitSheet ==
  SheetInit /\ CrawlIdle /\ RetryIdle /\ FormIdle /\ DecodeIdle /\ MonthIdle
    /\ TableIdle

NextSheet == ParseSheet

SpecSheet == InitSheet /\ [][NextSheet]_vars

\* parseTableTypes
InitTable ==
  TableInit /\ CrawlIdle /\ RetryIdle /\ FormIdle /\ DecodeIdle /\ MonthIdle
    /\ SheetIdle

NextTable == ParseTable

SpecTable == InitTable /\ [][NextTable]_vars

(***************************************************************************)
(* Properties.                                                             *)
(***************************************************************************)
WalletKeys ==
  [k \in DOMAIN result |->
     [institution |-> result[k].institution, account |-> result[k].account]]

LastWallet == result[Len(result)]

\* C1: a getStatement run that returns delivers exactly one AccountWallet
\* per (institution, non-placeholder account) pair the server listed, in
\* the order of the page and of the responses (while it runs, the wallets
\* collected are a prefix of the pairs listed); the wallet of a pair whose
\* report response carries no download directive has two empty lists; and
\* a submission error is only ever raised for a fatal report message.
C1_OneWalletPerPair ==
  mode = "statement" =>
    /\ Len(result) <= Len(expected)
    /\ \A k \in DOMAIN result : WalletKeys[k] = expected[k]
    /\ (pc = "done" => WalletKeys = expected)
    /\ (pc \in {"institution", "account", "done"} /\ result # <<>>
          /\ ~lastReport.script
        => /\ LastWallet.assetsCustody = <<>>
           /\ LastWallet.assetsGuarantee = <<>>)
    /\ (raised.type = "SUBMIT_ERROR" => lastReport.msg.severity = 2)

\* A run returned three wallets, of two institutions, the first with
\* assets and the last without a report.
C1_Witness ==
  /\ mode = "statement"
  /\ pc = "done"
  /\ Len(result) = 3
  /\ result[1].institution # result[3].institution
  /\ result[1].assetsCustody # <<>>
  /\ ~lastReport.script
  /\ LastWallet.assetsCustody = <<>>

\* The message _getFileAndParse decodes from the last report response.
DecodedReportMessage ==
  extractMessagePostResponse(normalizeWhitespace(lastReport.text))

LastInstAccounts == FilterValues(OptionValues(lastInst.accountOptions))

C4_FatalAlwaysRaised ==
  mode = "statement" /\ lastReport.msg.severity = 2 =>
    /\ pc = "failed"
    /\ raised = SubmitError(Str(lastReport.msg.text))

\* C5: in every terminal state of a run, returned or failed, no report
\* file is left in the download folder.
C5_NoFileRemains ==
  pc \in {"done", "failed"} => files = {}

NonPlaceholders(options) ==
  {k \in DOMAIN options : options[k].value \notin PlaceholderValues}

\* C6: getStatementOptions never asks for a report: it sends no report
\* postback and no download request and saves no file, its postbacks
\* never name the export button as event target, and a run that returns
\* has fetched the page once and sent one institution postback per
\* non-placeholder institution.
C6_OptionsNeverReport ==
  mode = "options" =>
    /\ reqCount.report = 0
    /\ reqCount.download = 0
    /\ files = {}
    /\ pc \notin {"account", "download"}
    /\ lastReq.kind \in {"none", "page", "institution"}
    /\ BodyValue(lastReq.body, EventTarget) # Str(<<BtnVersaoEXCEL>>)
    /\ reqCount.page <= 1
    /\ (pc = "done"
        => /\ reqCount.page = 1
           /\ reqCount.institution
                = Cardinality(NonPlaceholders(pageOptions)))

\* A discovery run returned after listing two institutions, the second
\* with two accounts.
C6_Witness ==
  /\ mode = "options"
  /\ pc = "done"
  /\ reqCount.institution = 2
  /\ Len(institutions[2].accounts) = 2

FormNames(body) == {body[k].name : k \in DOMAIN body}

DomNames(d) == {d[k].name : k \in DOMAIN d}

SeqRange(seq) == {seq[k] : k \in DOMAIN seq}

\* C7: a name present both in the DOM and in the override map goes out
\* with the override's value.
C7_OverrideWins ==
  fpc = "done" =>
    \A name \in DOMAIN fextra :
      name \in SeqRange(ffilter) /\ name \in DomNames(fdom)
        => BodyValue(fbody, name) = Str(ToText(fextra[name]))

\* C8: the body of extractFormDataFromDOM holds names of the whitelist
\* only, each at most once, and holds a name of the whitelist exactly when
\* the DOM, the override map or the __ASYNCPOST seed supplies it.
C8_WhitelistOnly ==
  fpc = "done" =>
    /\ FormNames(fbody) \subseteq SeqRange(ffilter)
    /\ \A j, k \in DOMAIN fbody : fbody[j].name = fbody[k].name => j = k
    /\ \A name \in SeqRange(ffilter) :
         name \in FormNames(fbody)
           <=> name \in DomNames(fdom) \cup DOMAIN fextra \cup {AsyncPost}

\* A body left out an element and an override that are not of the
\* whitelist, and a name of the whitelist that nothing supplies.
C8_Witness ==
  /\ fpc = "done"
  /\ BtnConsultar \in DomNames(fdom)
  /\ BtnConsultar \in DOMAIN fextra
  /\ BtnConsultar \notin FormNames(fbody)
  /\ ViewState \in FormNames(fbody)
  /\ EventTarget \in SeqRange(ffilter) \ FormNames(fbody)

AllRetryable(errors) == \A k \in DOMAIN errors : checkRetryCallback(errors[k])

\* C9: with the default of three attempts, a callback that fails k times
\* with retryable errors and then succeeds has retry return its value
\* after k sleeps and k + 1 invocations; retry does not raise before the
\* third retryable failure; and an error the predicate refuses is raised
\* at once, without a sleep after it.
C9_RetryDefault ==
  attemptsArg = DefaultAttempts /\ rpc # "idle" =>
    /\ (rpc = "returned"
        => /\ AllRetryable(failures)
           /\ Len(failures) < DefaultAttempts
           /\ sleeps = Len(failures)
           /\ calls = Len(failures) + 1
           /\ rresult = Str(<<"value">>))
    /\ (rpc = "raised" /\ AllRetryable(failures)
        => Len(failures) = DefaultAttempts)
    /\ (failures # <<>> /\ ~checkRetryCallback(failures[Len(failures)])
        => /\ rpc = "raised"
           /\ calls = Len(failures)
           /\ sleeps = Len(failures) - 1)
    /\ (rpc = "raised" => ~ENABLED NextRetry)

\* The callback failed twice with retryable errors and succeeded at the
\* third invocation.
C9_Witness ==
  /\ attemptsArg = DefaultAttempts
  /\ rpc = "returned"
  /\ Len(failures) = 2
  /\ sleeps = 2
  /\ calls = 3

\* C10: whatever the attempts argument, zero and negative values
\* included, retry invokes the callback at most max(attempts, 1) times.
C10_RetryBounded ==
  rpc # "idle" =>
    calls <= (IF attemptsArg > 1 THEN attemptsArg ELSE 1)

\* The entries of the decoded response that carry a message call.
MessageEntries == SelectSeq(dentries, LAMBDA e : e.msg # NoServerMessage)

\* C11: when the last line of a response embeds the message call with the
\* arguments (2, text), extractMessagePostResponse yields severity 2 and
\* that text, the text single-quoted or double-quoted.
C11_MessageDecoded ==
  dpc \in {"decoded", "applied"} /\ MessageEntries # <<>> =>
    dmsg = [type |-> Num(MessageEntries[1].msg.severity),
            message |-> Str(MessageEntries[1].msg.text)]

\* The entries of the decoded response that extractUpdateForm is to report.
MarkerEntries ==
  SelectSeq(dentries,
            LAMBDA e : \/ e.type = "hiddenField"
                       \/ dscript /\ e.id = <<"ScriptContentNoTags">>)

\* C12: extractUpdateForm yields one entry per hiddenField entry of the
\* last line, in the order of the line, with the id and the (non-empty)
\* value the server wrote for it; the script entries add one entry each
\* when extractScript is set and none otherwise; the entries of an earlier
\* line and the entries of other types yield nothing, and a line without
\* markers yields the empty list.
C12_OneEntryPerMarker ==
  dpc \in {"decoded", "applied"} =>
    /\ Len(dfields) = Len(MarkerEntries)
    /\ \A k \in DOMAIN MarkerEntries :
         MarkerEntries[k].type = "hiddenField"
           => /\ k \in DOMAIN dfields
              /\ dfields[k].id = Str(MarkerEntries[k].id)
              /\ (MarkerEntries[k].content # <<>>
                  => dfields[k].value = Str(MarkerEntries[k].content))

\* Two hiddenField entries around a script entry, after an earlier line,
\* decoded without the scripts: two entries.
C12_Witness ==
  /\ dpc = "decoded"
  /\ ~dscript
  /\ dprefix
  /\ Len(dentries) = 3
  /\ dentries[1].type = "hiddenField"
  /\ dentries[2].type = "scriptBlock"
  /\ dentries[3].type = "hiddenField"
  /\ Len(dfields) = 2
  /\ dfields[1].value = Str(<<"a">>)
  /\ dfields[2].value = Str(<<"b">>)

\* The entries of fields that write the element of this id.
Writes(fields, id) ==
  {i \in DOMAIN fields :
     /\ fields[i].id = Str(<<id>>)
     /\ fields[i].value.kind = "str"
     /\ fields[i].value # Str(<<"0">>)}

\* C17: after updateFieldsDOM every element holds the value of the last
\* entry of the list that writes it (an entry of value "0" writes
\* nothing), and the value it had when no entry writes it.
C17_LastWriteWins ==
  dpc = "applied" =>
    /\ Len(dafter) = Len(ddom)
    /\ \A k \in DOMAIN ddom :
         LET w == Writes(dfields, ddom[k].id)
         IN  /\ dafter[k].id = ddom[k].id
             /\ dafter[k].name = ddom[k].name
             /\ dafter[k].value =
                  IF w = {} THEN ddom[k].value
                  ELSE dfields[CHOOSE i \in w : \A j \in w : j <= i].value.s

\* Two entries wrote the view state, "a" and then "b": it holds "b".
C17_Witness ==
  /\ dpc = "applied"
  /\ Len(dfields) = 2
  /\ dfields[1] = [id |-> Str(<<ViewState>>), value |-> Str(<<"a">>)]
  /\ dfields[2] = [id |-> Str(<<ViewState>>), value |-> Str(<<"b">>)]
  /\ ValueOf(dafter, ViewState) = Str(<<"b">>)

\* C18: an entry whose value is the sentinel "0" changes nothing: an
\* element whose entries all carry "0" keeps its value, as do the elements
\* no entry names.
C18_SentinelNoOp ==
  dpc = "applied" =>
    \A k \in DOMAIN ddom :
      (\A i \in DOMAIN dfields :
         dfields[i].id = Str(<<ddom[k].id>>)
           => dfields[i].value = Str(<<"0">>))
        => dafter[k] = ddom[k]

\* The only entry for the view state carried "0": the view state is the
\* one the DOM held.
C18_Witness ==
  /\ dpc = "applied"
  /\ \E i \in DOMAIN dfields :
       dfields[i] = [id |-> Str(<<ViewState>>), value |-> Str(<<"0">>)]
  /\ \A i \in DOMAIN dfields :
       dfields[i].id = Str(<<ViewState>>) => dfields[i].value = Str(<<"0">>)
  /\ ValueOf(dafter, ViewState) = Str(<<"vs", "0">>)

\* A value that is the decimal writing of a positive integer.
PositiveValue(value) ==
  /\ value # <<>>
  /\ \A k \in DOMAIN value : IsDigit(value[k])
  /\ \E k \in DOMAIN value : value[k] # "0"

ValueAndLabel(options) ==
  [k \in DOMAIN options |->
     [value |-> options[k].value, label |-> options[k].label]]

\* C13: the institutions that getStatement and getStatementOptions iterate
\* over are the options of the page whose value is positive, in the order
\* of the page; the accounts that getStatement iterates over, and the
\* accounts that getStatementOptions returns for an institution, are the
\* values of the account options of the institution's response that are
\* positive, in the order of the response.  Options of value zero or
\* negative are left out.
C13_PlaceholdersExcluded ==
  /\ (mode \in {"statement", "options"} /\ dom # <<>>
      => ValueAndLabel(institutions)
           = SelectSeq(pageOptions, LAMBDA o : PositiveValue(o.value)))
  /\ (mode = "statement" /\ reqCount.institution > 0
      => accounts = SelectSeq(OptionValues(lastInst.accountOptions),
                              PositiveValue))
  /\ (mode = "options" /\ instIdx > 1
      => institutions[instIdx - 1].accounts
           = SelectSeq(OptionValues(lastInst.accountOptions),
                       PositiveValue))

\* The page listed a placeholder of value 0 before an institution, and
\* the institution's response an account before a placeholder of value -1:
\* one institution and one account are iterated over.
C13_Witness ==
  /\ mode = "statement"
  /\ pc = "account"
  /\ Len(pageOptions) = 2
  /\ pageOptions[1].value = <<"0">>
  /\ Len(institutions) = 1
  /\ Len(lastInst.accountOptions) = 2
  /\ lastInst.accountOptions[2].value = <<"-", "1">>
  /\ accounts = <<<<"1", "0">>>>

\* a is a day before b.
DayBefore(a, b) ==
  \/ a.y < b.y
  \/ a.y = b.y /\ a.m < b.m
  \/ a.y = b.y /\ a.m = b.m /\ a.d < b.d

\* The target date of C14: the requested date, or the first or the last
\* month option when capDates is set and the date lies outside of them.
TargetDate ==
  IF mcapDates /\ mmonths # <<>> /\ DayBefore(mdate, mmonths[1].date)
    THEN mmonths[1].date
  ELSE IF mcapDates /\ mmonths # <<>>
            /\ DayBefore(mmonths[Len(mmonths)].date, mdate)
    THEN mmonths[Len(mmonths)].date
  ELSE mdate

\* C14: the month value set before a report postback is the last calendar
\* day of the month of the target date: the requested date, replaced by
\* the first month option when capDates is set and the date is before it,
\* and by the last month option when capDates is set and the date is after
\* it.
C14_LastDayOfTargetMonth ==
  mpc = "done" =>
    mvalue = Pad2(DaysInMonth(TargetDate.y, TargetDate.m)) \o <<"/">>
               \o Pad2(TargetDate.m) \o <<"/">> \o Digits(TargetDate.y)
               \o <<TimeSuffix>>

(***************************************************************************)
(* C15.  parseSheetData returns no record when the start or the end marker *)
(* is absent, and otherwise exactly one record per row at a 0-based index  *)
(* i with startRowIndex + 1 + skipHeaderCount <= i < endRowIndex, in row   *)
(* order (none when the first end marker is not after the start marker).   *)
(* A call that returns is meant; a call can only raise over a row of that  *)
(* range.                                                                  *)
(***************************************************************************)
MarkerIndexes(text) ==
  {i \in 0..(Len(srows) - 1) :
     \E k \in DOMAIN srows[i + 1] :
       srows[i + 1][k] = [key |-> RefDateKey, value |-> Str(<<text>>)]}

First(S) == CHOOSE i \in S : \A j \in S : i <= j

ConsumedIndexes ==
  IF MarkerIndexes(StartText) = {} \/ MarkerIndexes(EndText) = {} THEN {}
  ELSE {i \in 0..(Len(srows) - 1) :
          /\ First(MarkerIndexes(StartText)) + 1
               + (IF sskipHeader THEN 1 ELSE 0) <= i
          /\ i < First(MarkerIndexes(EndText))}

\* The consumed indexes in increasing order.
RECURSIVE Ascending(_)
Ascending(S) ==
  IF S = {} THEN <<>> ELSE <<First(S)>> \o Ascending(S \ {First(S)})

C15_RowRangeConsumed ==
  /\ spc = "done" =>
       /\ Len(sitems) = Cardinality(ConsumedIndexes)
       /\ \A j \in DOMAIN sitems :
            sitems[j].asset = srows[Ascending(ConsumedIndexes)[j] + 1][1].value
  /\ spc = "raised" => ConsumedIndexes # {}

C15_Witness ==
  /\ spc = "done"
  /\ Len(sitems) = 2
  /\ sitems[1].asset # sitems[2].asset
  /\ First(MarkerIndexes(StartText)) > 0

C15_WitnessSkipHeader ==
  /\ spc = "done"
  /\ sskipHeader
  /\ Len(sitems) = 1
  /\ Cardinality(MarkerIndexes(EndText)) = 1

(***************************************************************************)
(* C16.  Within one getStatement run the requests are sent one at a time   *)
(* and depth-first without backtracking: every step of the run sends at    *)
(* most one request and has its response before the next step; an         *)
(* institution is selected only when the reports of all pairs listed so    *)
(* far have been asked for; the n-th report postback is the one of the     *)
(* n-th pair listed, under the institution selected last; each institution *)
(* and each pair is visited once; and when the institutions are exhausted  *)
(* the run returns.                                                        *)
(***************************************************************************)
C16_Position ==
  mode = "statement" =>
    /\ reqCount.page = (IF pc = "start" THEN 0 ELSE 1)
    /\ reqCount.institution <= Len(institutions)
    /\ reqCount.report <= Len(expected)
    /\ reqCount.download <= reqCount.report
    /\ pc \in {"institution", "done"} =>
         /\ reqCount.institution = instIdx - 1
         /\ reqCount.report = Len(expected)
         /\ Len(result) = Len(expected)
    /\ pc \in {"account", "download"} =>
         /\ reqCount.institution = instIdx
         /\ Len(result) = Len(expected) - Len(accounts) + acctIdx - 1
         /\ reqCount.report =
              Len(result) + (IF pc = "download" THEN 1 ELSE 0)
    /\ pc = "institution" /\ instIdx > Len(institutions) =>
         /\ ENABLED Return
         /\ ~ENABLED SelectInstitution
    /\ pc = "done" =>
         /\ reqCount.institution = Len(institutions)
         /\ reqCount.report = Len(expected)

C16_Step ==
  mode = "statement" =>
    /\ Requests' \in {Requests, Requests + 1}
    /\ instIdx' >= instIdx
    /\ instIdx' = instIdx /\ pc # "institution" => acctIdx' >= acctIdx
    /\ reqCount'.institution # reqCount.institution =>
         /\ reqCount'.institution = reqCount.institution + 1
         /\ reqCount.report = Len(expected)
         /\ lastReq'.kind = "institution"
         /\ BodyValue(lastReq'.body, DdlAgentes)
              = Str(institutions[reqCount'.institution].value)
    /\ reqCount'.report # reqCount.report =>
         /\ reqCount'.report = reqCount.report + 1
         /\ lastReq'.kind = "report"
         /\ expected[reqCount'.report].institution
              = institutions[reqCount.institution].label
         /\ BodyValue(lastReq'.body, DdlAgentes)
              = Str(institutions[reqCount.institution].value)
         /\ BodyValue(lastReq'.body, DdlContas)
              = Str(expected[reqCount'.report].account)

C16_DepthFirst == []C16_Position /\ [][C16_Step]_vars

\* A run returned after two institutions and three pairs, a report
\* downloaded.
C16_Witness ==
  /\ mode = "statement"
  /\ pc = "done"
  /\ reqCount.institution = 2
  /\ reqCount.report = 3
  /\ reqCount.download >= 1

(***************************************************************************)
(* C19.  Every institution postback of getStatement, those sent after the  *)
(* report postbacks of an earlier institution included, carries the        *)
(* institution control as its event target and "<panel>|<institution       *)
(* control>" as its script-manager target.                                 *)
(***************************************************************************)
C19_InstitutionTargets ==
  mode = "statement" /\ lastReq.kind = "institution" =>
    /\ BodyValue(lastReq.body, EventTarget) = Str(<<DdlAgentes>>)
    /\ BodyValue(lastReq.body, ScptManager)
         = Str(<<PnlPanel, "|", DdlAgentes>>)

\* The same for the script-manager target alone.
C19_ScriptManagerTarget ==
  mode = "statement" /\ lastReq.kind = "institution" =>
    BodyValue(lastReq.body, ScptManager) = Str(<<PnlPanel, "|", DdlAgentes>>)

\* The event target of an institution postback sent after a report
\* postback is the institution control or empty.
C19_NeverReportButton ==
  mode = "statement" /\ lastReq.kind = "institution"
    /\ reqCount.report > 0 =>
    BodyValue(lastReq.body, EventTarget) \in {Str(<<DdlAgentes>>), Str(<<>>)}

(***************************************************************************)
(* C20.  The hidden-state mirror follows the server: when getStatement or  *)
(* getStatementOptions is about to send a postback, the view state of      *)
(* domPage, which the body will carry, is the one supplied by the most     *)
(* recent response that carried one, the responses to report postbacks     *)
(* and those received in getStatementOptions included.                     *)
(***************************************************************************)
C20_MirrorFollowsServer ==
  /\ mode = "statement" /\ pc = "account" /\ acctIdx > 1 =>
       ValueOf(dom, ViewState) = lastReport.viewState
  /\ mode = "statement" /\ pc = "account" /\ acctIdx = 1
       /\ lastInst.viewState # Undefined =>
       ValueOf(dom, ViewState) = lastInst.viewState
  /\ mode = "options" /\ pc = "institution" /\ instIdx <= Len(institutions)
       /\ lastInst.viewState # Undefined =>
       ValueOf(dom, ViewState) = lastInst.viewState

\* The part that getStatement keeps: the view state of an institution
\* response is in domPage, and in the body, at the institution's first
\* report postback.
C20_InstitutionUpdateApplied ==
  /\ mode = "statement" /\ pc = "account" /\ acctIdx = 1
       /\ lastInst.viewState # Undefined =>
       ValueOf(dom, ViewState) = lastInst.viewState
  /\ mode = "statement" /\ lastReq.kind = "report" /\ acctIdx = 1
       /\ pc \in {"download", "failed"} /\ lastInst.viewState # Undefined =>
       BodyValue(lastReq.body, ViewState) = lastInst.viewState

\* The view state of a report response never reaches domPage.
C20_ReportUpdateDropped ==
  mode = "statement" /\ lastReport.viewState # Undefined =>
    ValueOf(dom, ViewState) # lastReport.viewState

\* getStatementOptions keeps the view state of the page throughout.
C20_OptionsMirrorFrozen ==
  mode = "options" /\ pc # "start" /\ dom # <<>> =>
    ValueOf(dom, ViewState) = Str(<<"vs", "0">>)

(***************************************************************************)
(* C21.  With capDates set and at least one month option (exactly one      *)
(* included), the month value submitted for the report is never of a month *)
(* before the month of the first option nor of a month after the month of  *)
(* the last option, whatever the requested date.                           *)
(***************************************************************************)
\* The month of the value submitted, dd/mm/yyyy 00:00:00.
SubmittedMonth ==
  [y |-> DecimalValue(SubSeq(mvalue, 7, 10), 0),
   m |-> DecimalValue(SubSeq(mvalue, 4, 5), 0)]

MonthBefore(a, b) == a.y < b.y \/ (a.y = b.y /\ a.m < b.m)

C21_MonthWithinOptions ==
  mpc = "done" /\ mcapDates /\ mmonths # <<>> =>
    /\ ~MonthBefore(SubmittedMonth, mmonths[1].date)
    /\ ~MonthBefore(mmonths[Len(mmonths)].date, SubmittedMonth)

\* The lower bound is kept for every list, one option included.
C21_NeverBeforeFirstOption ==
  mpc = "done" /\ mcapDates /\ mmonths # <<>> =>
    ~MonthBefore(SubmittedMonth, mmonths[1].date)

\* The upper bound is kept for the lists of two options or more.
C21_NeverAfterLastOfSeveral ==
  mpc = "done" /\ mcapDates /\ Len(mmonths) >= 2 =>
    ~MonthBefore(mmonths[Len(mmonths)].date, SubmittedMonth)

(***************************************************************************)
(* C22.  parseTableTypes with the declared type int strips every dot       *)
(* between the groups of digits before it parses: a non-negative integer   *)
(* written with dot separators, of any number of groups ("1.234",          *)
(* "1.234.567"), is parsed to that integer.                                *)
(***************************************************************************)
\* The integer a text of digits and dots denotes.
RECURSIVE WithoutDots(_)
WithoutDots(text) ==
  IF text = <<>> THEN <<>>
  ELSE (IF text[1] = "." THEN <<>> ELSE <<text[1]>>)
       \o WithoutDots(Tail(text))

Denoted(text) == Num(DecimalValue(WithoutDots(text), 0))

DotsOf(text) == Cardinality({k \in DOMAIN text : text[k] = "."})

C22_IntOfEveryGroup ==
  tpc = "done" /\ ttype = "int" =>
    \A k \in DOMAIN tdata :
      tparsed[k][TableColumn] = Denoted(tdata[k][TableColumn].s)

\* An integer of at most two groups is parsed to that integer.
C22_IntOfTwoGroups ==
  tpc = "done" /\ ttype = "int" =>
    \A k \in DOMAIN tdata :
      DotsOf(tdata[k][TableColumn].s) <= 1 =>
        tparsed[k][TableColumn] = Denoted(tdata[k][TableColumn].s)

(***************************************************************************)
(* C23.  Every record that one parseSheetData call returns carries the     *)
(* same refDate, the one of the balances-summary row and never one of the  *)
(* row's own cells; and when both markers are there with rows of the table *)
(* between them but the sheet has no summary row, the call returns the     *)
(* records of these rows with a null refDate: it does not raise.           *)
(***************************************************************************)
SummaryRows ==
  {k \in DOMAIN srows :
     \E c \in DOMAIN srows[k] :
       /\ srows[k][c].key = RefDateKey
       /\ srows[k][c].value.s[1] = RefDateText}

\* The date the summary row of the sheets gives: 31/01/2020.
SummaryDate == [valid |-> TRUE, y |-> 2020, m |-> 1, d |-> 31]

\* Every consumed row is a row of the table: it has the seven columns.
OnlyTableRows == \A i \in ConsumedIndexes : Len(srows[i + 1]) >= 7

C23_RefDateSharedOrNull ==
  /\ spc = "done" /\ SummaryRows # {} =>
       \A j \in DOMAIN sitems : sitems[j].refDate = SummaryDate
  /\ spc # "start" /\ SummaryRows = {} /\ ConsumedIndexes # {}
       /\ OnlyTableRows =>
       /\ spc = "done"
       /\ Len(sitems) = Cardinality(ConsumedIndexes)
       /\ \A j \in DOMAIN sitems : sitems[j].refDate = Null

\* The first part alone: the records returned all carry the date of the
\* summary row, also those of rows with a date cell of their own.
C23_RefDateShared ==
  spc = "done" =>
    \A j \in DOMAIN sitems : sitems[j].refDate = SummaryDate

\* Without a summary row a call over rows of the table always raises.
C23_RaisesWithoutSummary ==
  spc # "start" /\ SummaryRows = {} /\ ConsumedIndexes # {} =>
    spc = "raised"

\* With a summary row a call over rows of the table returns.
C23_ReturnsWithSummary ==
  spc # "start" /\ SummaryRows # {} /\ OnlyTableRows => spc = "done"

\* Two records were returned, one of a row with a date cell of its own.
C23_SharedReached ==
  /\ spc = "done"
  /\ Len(sitems) = 2
  /\ \E i \in ConsumedIndexes : Len(srows[i + 1]) = 8

=============================================================================
